---- MODULE Spec2Model ----
(***************************************************************************)
(* WebAuthn PRF encryption demo: the Hono server (index.ts, db.ts), its    *)
(* in-memory challenge map, the D1 users/passkeys tables and the R2        *)
(* bucket, and the React client (App.tsx, crypto.ts) with the platform     *)
(* authenticator.  Every request handler is one action; a client handler   *)
(* is one action per request it awaits.  The request body and the outcome  *)
(* of the external collaborators (WebAuthn verifier, R2, D1, Web Crypto)   *)
(* are drawn from small sets.                                              *)
(***************************************************************************)
EXTENDS Integers, FiniteSets, Sequences, TLC

\* ---------------------------------------------------------------- bounds
MaxChallenge == 2       \* number of challenges the option generators hand out
MaxCounter == 2         \* largest signature counter an authenticator reports

\* ------------------------------------------------------------ value sets
Usernames == {"alice", "bob"}
CredIds == {"k1", "k2"}
Null == "null"
NoChallenge == 0
Kinds == {"register", "authenticate"}

\* Byte strings and their text encodings are terms (tuples headed by a tag);
\* the absent ones are the empty tuple.
NoBytes == <<>>         \* a null Uint8Array / ArrayBuffer / CryptoKey
NoText == <<>>          \* a NULL text column, an absent JSON field
NoObject == <<>>        \* R2_BUCKET.get(key) === null

\* ------------------------------------------------------------- crypto.ts
\* crypto.getRandomValues(new Uint8Array(32)): the values it can return
generatePrfSalt == {<<"rand", 32, "a">>, <<"rand", 32, "b">>}

\* crypto.getRandomValues(new Uint8Array(12))
generateNonce == {<<"rand", 12, "a">>, <<"rand", 12, "b">>}

\* new Uint8Array(32), the default of deriveEncryptionKey's salt parameter
DefaultSalt == <<"zero", 32>>

\* btoa(String.fromCharCode(...bytes)): base64 text, standard alphabet, padded
btoa(bytes) == <<"b64", bytes>>

\* atob throws InvalidCharacterError on text that is not base64
atobThrows(text) == Len(text) = 0 \/ text[1] # "b64"

atob(text) == text[2]

\* base64.replace(/\+/g, "-").replace(/\//g, "_").replace(/=/g, "")
toUrlAlphabet(base64) ==
    IF base64[1] = "b64" THEN <<"b64url", base64[2]>> ELSE base64

\* base64url.replace(/-/g, "+").replace(/_/g, "/"), then padEnd with "="
toPaddedBase64(base64url) ==
    IF base64url[1] = "b64url" THEN <<"b64", base64url[2]>> ELSE base64url

uint8ArrayToBase64Url(array) == toUrlAlphabet(btoa(array))

base64UrlToUint8ArrayThrows(base64url) == atobThrows(toPaddedBase64(base64url))

base64UrlToUint8Array(base64url) == atob(toPaddedBase64(base64url))

\* new TextEncoder().encode(text)
TextEncode(text) == <<"utf8", text>>

\* mutant: the bytes are dropped
TextDecode_empty(bytes) == ""

\* new TextDecoder().decode(bytes): bytes that are no UTF-8 text decode to
\* replacement characters, decode does not throw
TextDecode(bytes) == IF bytes[1] = "utf8" THEN bytes[2] ELSE "\\uFFFD"

\* the length of a byte string
RECURSIVE byteLength(_)
byteLength(bytes) ==
    IF bytes[1] \in {"rand", "zero"} THEN bytes[2]
    ELSE IF bytes[1] = "prf" THEN 32
    ELSE IF bytes[1] = "aesgcm" THEN byteLength(bytes[4]) + 16
    ELSE Len(bytes[2])

\* crypto.subtle.importKey("raw", prfOutput, "HKDF", ...) and deriveKey with
\* HKDF-SHA-256, the salt and an empty info: neither checks a length, so the
\* derivation does not throw
deriveEncryptionKeyThrows(prfOutput, salt) == FALSE

\* the AES-GCM 256 key HKDF derives: a term of the key material and the salt
deriveEncryptionKey(prfOutput, salt) == <<"hkdf", prfOutput, salt>>

\* mutant: the data is returned as it is
encryptData_plain(key, data, nonce) == data

\* crypto.subtle.encrypt({name: "AES-GCM", iv: nonce}, key, data)
encryptData(key, data, nonce) == <<"aesgcm", key, nonce, data>>

\* mutant: no authentication tag is checked
decryptDataThrows_noTag(key, ciphertext, nonce) == FALSE

\* crypto.subtle.decrypt throws OperationError unless the tag verifies: the
\* ciphertext was made under this key and this nonce
decryptDataThrows(key, ciphertext, nonce) ==
    ~(/\ Len(ciphertext) = 4
      /\ ciphertext[1] = "aesgcm"
      /\ ciphertext[2] = key
      /\ ciphertext[3] = nonce)

decryptData(key, ciphertext, nonce) == ciphertext[4]

\* ------------------------------------------------------- request bodies
\* what a request can carry as prfSalt, nonce and encryptedBlob
Salts == {uint8ArrayToBase64Url(s) : s \in generatePrfSalt}
\* /store-blob takes the nonce as it comes: the client sends the encoding of
\* 12 random bytes, another caller any text
Nonces ==
    {uint8ArrayToBase64Url(n) : n \in generateNonce}
        \cup {uint8ArrayToBase64Url(<<"rand", 16, "a">>)}
Blobs == {<<"bytes", "c1">>, <<"bytes", "c2">>}
EncodedBlobs == {btoa(c) : c \in Blobs} \cup {<<"text", "c1">>}

VARIABLES
    users,        \* D1 table users, by username
    passkeys,     \* D1 table passkeys, by cred_id
    challenges,   \* the in-memory Map<string, string> of index.ts
    bucket,       \* R2 bucket, by object key
    nextChallenge,\* source of fresh challenges (generate*Options)
    resp,         \* the response to the last request
    issuedFor,    \* history: the (username, kind) each challenge was issued for
    ceremony,     \* history: the ceremony state of each username
    verifiedUsers,\* history: usernames some ceremony was verified for
    putWith,      \* history: the nonce submitted with the object in the bucket
    stored,       \* history: usernames a store-blob succeeded for
    tabs,         \* the React state of App in each browser tab
    authenticator,\* the credential ids the platform authenticator holds
    sealed,       \* history: what the last encrypt-and-store of a user sealed
    actor,        \* history: the tab and the handler that made the last step
    call,         \* the crypto.ts call the last step made, and its outcome
    requests,     \* the Worker requests suspended at an await, by slot
    submitted     \* history: the (username, object, nonce) of the store-blob
                  \* requests that were taken up one await at a time

srvVars == <<users, passkeys, challenges, bucket, nextChallenge>>
histVars == <<issuedFor, ceremony, verifiedUsers, putWith, stored>>
cliVars == <<tabs, authenticator, sealed, actor>>
flightVars == <<requests, submitted>>
vars == <<users, passkeys, challenges, bucket, nextChallenge, resp,
          issuedFor, ceremony, verifiedUsers, putWith, stored,
          tabs, authenticator, sealed, actor, call, requests, submitted>>

\* ------------------------------------------------------------- db.ts
NoKey == <<>>
NoUser == [id |-> 0, prf_salt |-> NoText, encrypted_blob_key |-> NoKey,
           blob_nonce |-> NoText]
NoPasskey == [internal_user_id |-> 0, counter |-> 0]

\* SELECT * FROM users WHERE username = ?
getUser(db, username) == db[username]

\* mutant: `if (!user)` always creates
UserExists_never(row) == FALSE

UserExists(row) == row.id # 0

\* INSERT INTO users (username) VALUES (?) RETURNING *   (AUTOINCREMENT id)
createUser(db, username) ==
    [db EXCEPT ![username] =
        [NoUser EXCEPT !.id = Cardinality({u \in Usernames : db[u].id # 0}) + 1]]

\* mutant: every passkey of the table is returned
getUserPasskeys_all(pk, db, userId) == CredIds

\* mutant: no passkey is returned
getUserPasskeys_none(pk, db, userId) == {}

\* SELECT * FROM passkeys WHERE internal_user_id = ?
getUserPasskeys(pk, db, userId) ==
    IF \E u \in Usernames : db[u].id = userId /\ userId # 0
    THEN {k \in CredIds : pk[k].internal_user_id = userId}
    ELSE {}

\* SELECT * FROM passkeys WHERE cred_id = ?  (and its user row)
getPasskeyById(pk, db, credId) ==
    IF pk[credId].internal_user_id # 0
       /\ \E u \in Usernames : db[u].id = pk[credId].internal_user_id
    THEN pk[credId]
    ELSE NoPasskey

\* mutant: `if (!passkey)` never returns
PasskeyExists_always(row) == TRUE

\* `if (!passkey)`: was a row found
PasskeyExists(row) == row.internal_user_id # 0

\* mutant: INSERT OR REPLACE, a duplicate cred_id replaces the row
savePasskeyThrows_replace(pk, credId) == FALSE

\* INSERT INTO passkeys (...): cred_id is the PRIMARY KEY, a duplicate throws
savePasskeyThrows(pk, credId) == pk[credId].internal_user_id # 0

savePasskey(pk, credId, userId, counter) ==
    [pk EXCEPT ![credId] = [internal_user_id |-> userId, counter |-> counter]]

\* UPDATE passkeys SET counter = ? WHERE cred_id = ?
updatePasskeyCounter(pk, credId, newCounter) ==
    [pk EXCEPT ![credId].counter = newCounter]

\* mutant: a reference that is already there is kept
saveUserBlobReference_keep(db, userId, blobKey, nonce) ==
    [u \in Usernames |->
        IF db[u].id = userId /\ db[u].encrypted_blob_key = NoKey
        THEN [db[u] EXCEPT !.encrypted_blob_key = blobKey, !.blob_nonce = nonce]
        ELSE db[u]]

\* UPDATE users SET encrypted_blob_key = ?, blob_nonce = ? WHERE id = ?
saveUserBlobReference(db, userId, blobKey, nonce) ==
    [u \in Usernames |->
        IF db[u].id = userId
        THEN [db[u] EXCEPT !.encrypted_blob_key = blobKey, !.blob_nonce = nonce]
        ELSE db[u]]

\* mutant: the two columns are not read together, the nonce is missing
getUserBlobReference_keyOnly(db, userId) ==
    LET row == CHOOSE r \in {db[u] : u \in Usernames} \cup {NoUser} :
                   r.id = userId
    IN [encrypted_blob_key |-> row.encrypted_blob_key,
        blob_nonce |-> NoText]

\* SELECT encrypted_blob_key, blob_nonce FROM users WHERE id = ?
getUserBlobReference(db, userId) ==
    LET row == CHOOSE r \in {db[u] : u \in Usernames} \cup {NoUser} :
                   r.id = userId
    IN [encrypted_blob_key |-> row.encrypted_blob_key,
        blob_nonce |-> row.blob_nonce]

\* UPDATE users SET prf_salt = ? WHERE id = ?
saveUserPrfSalt(db, userId, prfSalt) ==
    [u \in Usernames |->
        IF db[u].id = userId THEN [db[u] EXCEPT !.prf_salt = prfSalt]
        ELSE db[u]]

\* SELECT prf_salt FROM users WHERE id = ?   (result?.prf_salt || null)
getUserPrfSalt(db, userId) ==
    LET row == CHOOSE r \in {db[u] : u \in Usernames} \cup {NoUser} :
                   r.id = userId
    IN row.prf_salt


\* ------------------------------------------------ external collaborators
\* What a client sends as `response`: the authenticator's signed answer.
Responses ==
    [type : {"webauthn.create", "webauthn.get"},
     challenge : 1..MaxChallenge,
     id : CredIds,
     counter : 0..MaxCounter,
     sig : {"valid", "invalid"}]

\* @simplewebauthn/server verifyRegistrationResponse: a wrong ceremony type or
\* a challenge other than expectedChallenge throws; a bad attestation gives
\* verified=false.
verifyRegistrationResponse(response, expectedChallenge) ==
    IF response.type # "webauthn.create"
    THEN [outcome |-> "throw", error |-> "Error: Unexpected response type"]
    ELSE IF response.challenge # expectedChallenge
    THEN [outcome |-> "throw", error |-> "Error: Unexpected challenge"]
    ELSE IF response.sig # "valid" THEN [outcome |-> "false", error |-> Null]
    ELSE [outcome |-> "true", error |-> Null]

\* @simplewebauthn/server verifyAuthenticationResponse: as above, and a
\* counter that does not advance throws unless reported and stored are both 0.
verifyAuthenticationResponse(response, expectedChallenge, credential) ==
    IF response.type # "webauthn.get"
    THEN [outcome |-> "throw", error |-> "Error: Unexpected response type"]
    ELSE IF response.challenge # expectedChallenge
    THEN [outcome |-> "throw", error |-> "Error: Unexpected challenge"]
    ELSE IF response.sig # "valid" THEN [outcome |-> "false", error |-> Null]
    ELSE IF (response.counter > 0 \/ credential.counter > 0)
            /\ response.counter <= credential.counter
    THEN [outcome |-> "throw", error |-> "Error: Response counter value"]
    ELSE [outcome |-> "true", error |-> Null]

\* --------------------------------------------------------------- replies
\* the reply to a request, with what the request was (op, username) and, for a
\* ceremony request, the ceremony state it found (before), the challenge
\* issued or verified and, for /verify-authentication, the credential id and
\* the counter of the response; r2 is the R2_BUCKET method the handler called
NoReply ==
    [op |-> "none", username |-> Null, result |-> "none", before |-> "none",
     challenge |-> NoChallenge, id |-> Null, reported |-> 0,
     blob |-> NoText, nonce |-> NoText, salt |-> NoText, flag |-> FALSE,
     r2 |-> "none"]

Reply(op, username, result) ==
    [NoReply EXCEPT !.op = op, !.username = username, !.result = result]

CompleteOps == {"verify-registration", "verify-authentication"}

\* ------------------------------------------------------------- index.ts
\* challenges.set(username, options.challenge)
challengesSet(ch, username, challenge) == [ch EXCEPT ![username] = challenge]

\* mutant: the challenge is left in the map
challengesDelete_kept(ch, username) == ch

\* challenges.delete(username)
challengesDelete(ch, username) == [ch EXCEPT ![username] = NoChallenge]

\* POST /generate-registration-options
GenerateRegistrationOptions(username) ==
    LET found == getUser(users, username)
        db == IF UserExists(found) THEN users ELSE createUser(users, username)
        challenge == nextChallenge + 1
        op == "generate-registration-options"
    IN  /\ nextChallenge < MaxChallenge
        /\ users' = db
        /\ nextChallenge' = challenge
        /\ challenges' = challengesSet(challenges, username, challenge)
        /\ resp' = [Reply(op, username, "options") EXCEPT
                       !.before = ceremony[username], !.challenge = challenge]
        /\ issuedFor' = [issuedFor EXCEPT ![challenge] = <<username, "register">>]
        /\ ceremony' = [ceremony EXCEPT ![username] = "ChallengeIssued"]
        /\ UNCHANGED <<passkeys, bucket, verifiedUsers, putWith, stored>>

\* POST /verify-registration from `await verifyRegistrationResponse(...)` to
\* its reply, with the challenge and the user row it read before
verifyRegistrationAnswer(username, response, expectedChallenge, user) ==
    LET verification == verifyRegistrationResponse(response, expectedChallenge)
        op == "verify-registration"
        \* verified=false, or the catch block
        Rejected(result) ==
            /\ resp' = [Reply(op, username, result) EXCEPT
                           !.before = ceremony[username]]
            /\ ceremony' = [ceremony EXCEPT ![username] = "Rejected"]
            /\ UNCHANGED <<srvVars, issuedFor, verifiedUsers, putWith, stored>>
    IN  IF verification.outcome = "throw" THEN Rejected(verification.error)
        ELSE IF verification.outcome = "false" THEN Rejected("not verified")
        ELSE IF savePasskeyThrows(passkeys, response.id)
        THEN Rejected("Error: UNIQUE constraint failed")
        ELSE /\ passkeys' = savePasskey(passkeys, response.id, user.id,
                                        response.counter)
             /\ challenges' = challengesDelete(challenges, username)
             /\ resp' = [Reply(op, username, "verified") EXCEPT
                            !.before = ceremony[username],
                            !.challenge = response.challenge]
             /\ ceremony' = [ceremony EXCEPT ![username] = "Verified"]
             /\ verifiedUsers' = verifiedUsers \cup {username}
             /\ UNCHANGED <<users, bucket, nextChallenge, issuedFor, putWith,
                            stored>>

\* POST /verify-registration
VerifyRegistration(username, response) ==
    LET expectedChallenge == challenges[username]
        user == getUser(users, username)
        op == "verify-registration"
        \* an early return, before the verifier is called
        Fail(result) ==
            /\ resp' = [Reply(op, username, result) EXCEPT
                           !.before = ceremony[username]]
            /\ UNCHANGED <<srvVars, histVars>>
    IN  IF expectedChallenge = NoChallenge THEN Fail("Challenge not found")
        ELSE IF ~UserExists(user) THEN Fail("User not found")
        ELSE verifyRegistrationAnswer(username, response, expectedChallenge,
                                      user)

\* POST /generate-authentication-options
GenerateAuthenticationOptions(username) ==
    LET user == getUser(users, username)
        userPasskeys == getUserPasskeys(passkeys, users, user.id)
        challenge == nextChallenge + 1
        op == "generate-authentication-options"
        Fail(result) ==
            /\ resp' = [Reply(op, username, result) EXCEPT
                           !.before = ceremony[username]]
            /\ UNCHANGED <<srvVars, histVars>>
    IN  IF ~UserExists(user) THEN Fail("User not found")
        ELSE IF userPasskeys = {} THEN Fail("No passkeys found for user")
        ELSE /\ nextChallenge < MaxChallenge
             /\ nextChallenge' = challenge
             /\ challenges' = challengesSet(challenges, username, challenge)
             /\ resp' = [Reply(op, username, "options") EXCEPT
                            !.before = ceremony[username],
                            !.challenge = challenge]
             /\ issuedFor' = [issuedFor EXCEPT
                                  ![challenge] = <<username, "authenticate">>]
             /\ ceremony' = [ceremony EXCEPT ![username] = "ChallengeIssued"]
             /\ UNCHANGED <<users, passkeys, bucket, verifiedUsers, putWith,
                            stored>>

\* mutant: the stored counter is not handed to the verifier
credentialOf_noCounter(passkey) == [counter |-> 0]

\* the `credential` argument of verifyAuthenticationResponse
credentialOf(passkey) == [counter |-> passkey.counter]

\* POST /verify-authentication from `await verifyAuthenticationResponse(...)`
\* to its reply, with the challenge and the passkey row it read before
verifyAuthenticationAnswer(username, response, expectedChallenge, passkey) ==
    LET verification == verifyAuthenticationResponse(response,
                            expectedChallenge, credentialOf(passkey))
        newCounter == response.counter
        op == "verify-authentication"
        Rejected(result) ==
            /\ resp' = [Reply(op, username, result) EXCEPT
                           !.before = ceremony[username],
                           !.id = response.id,
                           !.reported = response.counter]
            /\ ceremony' = [ceremony EXCEPT ![username] = "Rejected"]
            /\ UNCHANGED <<srvVars, issuedFor, verifiedUsers, putWith, stored>>
    IN  IF verification.outcome = "throw" THEN Rejected(verification.error)
        ELSE IF verification.outcome = "false" THEN Rejected("not verified")
        ELSE /\ passkeys' = updatePasskeyCounter(passkeys, response.id,
                                                 newCounter)
             /\ challenges' = challengesDelete(challenges, username)
             /\ resp' = [Reply(op, username, "verified") EXCEPT
                            !.before = ceremony[username],
                            !.challenge = response.challenge,
                            !.id = response.id,
                            !.reported = response.counter]
             /\ ceremony' = [ceremony EXCEPT ![username] = "Verified"]
             /\ verifiedUsers' = verifiedUsers \cup {username}
             /\ UNCHANGED <<users, bucket, nextChallenge, issuedFor, putWith,
                            stored>>

\* POST /verify-authentication
VerifyAuthentication(username, response) ==
    LET expectedChallenge == challenges[username]
        user == getUser(users, username)
        passkey == getPasskeyById(passkeys, users, response.id)
        op == "verify-authentication"
        Fail(result) ==
            /\ resp' = [Reply(op, username, result) EXCEPT
                           !.before = ceremony[username]]
            /\ UNCHANGED <<srvVars, histVars>>
    IN  IF expectedChallenge = NoChallenge THEN Fail("Challenge not found")
        ELSE IF ~UserExists(user) THEN Fail("User not found")
        ELSE IF ~PasskeyExists(passkey) THEN Fail("Passkey not found")
        ELSE verifyAuthenticationAnswer(username, response, expectedChallenge,
                                        passkey)

\* `user-${user.id}-blob`
blobKeyOf(userId) == <<"user", userId, "blob">>

BlobKeys == {blobKeyOf(i) : i \in 1..Cardinality(Usernames)}

\* what can go wrong in /store-blob: nothing, R2 put throws, the D1 update throws
Faults == {"none", "put", "db"}

\* does R2_BUCKET.put complete
blobWritten(fault) == fault # "put"

\* mutant: the reference is saved before the put
refWritten_first(fault) == fault # "db"

\* does saveUserBlobReference complete (it runs after the put)
refWritten(fault) == fault = "none"

\* POST /store-blob
StoreBlob(username, encryptedBlob, nonce, fault) ==
    LET user == getUser(users, username)
        blobKey == blobKeyOf(user.id)
        op == "store-blob"
    IN  IF ~UserExists(user)
        THEN /\ resp' = Reply(op, username, "User not found")
             /\ UNCHANGED <<srvVars, histVars>>
        ELSE IF atobThrows(encryptedBlob)
        THEN /\ resp' = Reply(op, username, "InvalidCharacterError")
             /\ UNCHANGED <<srvVars, histVars>>
        ELSE /\ bucket' = IF blobWritten(fault)
                          THEN [bucket EXCEPT ![blobKey] = atob(encryptedBlob)]
                          ELSE bucket
             /\ putWith' = IF blobWritten(fault)
                           THEN [putWith EXCEPT ![blobKey] = nonce]
                           ELSE putWith
             /\ users' = IF refWritten(fault)
                         THEN saveUserBlobReference(users, user.id, blobKey,
                                                    nonce)
                         ELSE users
             /\ resp' = [(IF fault = "none"
                          THEN Reply(op, username, "success")
                          ELSE Reply(op, username, "Error: " \o fault))
                            EXCEPT !.r2 = "put"]
             /\ stored' = IF fault = "none" THEN stored \cup {username}
                          ELSE stored
             /\ UNCHANGED <<passkeys, challenges, nextChallenge, issuedFor,
                            ceremony, verifiedUsers>>

\* mutant: the same message as for a user without a reference
objectMissingError_same == "No blob found for user"

\* the error of /retrieve-blob when R2_BUCKET.get returns null
objectMissingError == "Blob not found in storage"

\* the blob reference of a request that has not read it
NoRef == [encrypted_blob_key |-> NoKey, blob_nonce |-> NoText]

\* what POST /retrieve-blob answers once it has the blob reference: the
\* reference is read first, the object is fetched from R2 afterwards
retrieveBlobFrom(blobRef, r2, username) ==
    LET op == "retrieve-blob"
    IN  IF blobRef.encrypted_blob_key = NoKey
        THEN Reply(op, username, "No blob found for user")
        ELSE IF r2[blobRef.encrypted_blob_key] = NoObject
        THEN [Reply(op, username, objectMissingError) EXCEPT !.r2 = "get"]
        ELSE [Reply(op, username, "blob") EXCEPT
                 !.blob = btoa(r2[blobRef.encrypted_blob_key]),
                 !.nonce = blobRef.blob_nonce,
                 !.r2 = "get"]

\* what POST /retrieve-blob answers over these tables and this bucket
retrieveBlob(db, r2, username) ==
    LET user == getUser(db, username)
    IN  IF ~UserExists(user)
        THEN Reply("retrieve-blob", username, "User not found")
        ELSE retrieveBlobFrom(getUserBlobReference(db, user.id), r2, username)

\* POST /retrieve-blob
RetrieveBlob(username) ==
    /\ resp' = retrieveBlob(users, bucket, username)
    /\ UNCHANGED <<srvVars, histVars>>

\* POST /save-prf-salt
SavePrfSalt(username, prfSalt) ==
    LET user == getUser(users, username)
        op == "save-prf-salt"
    IN  IF ~UserExists(user)
        THEN /\ resp' = Reply(op, username, "User not found")
             /\ UNCHANGED <<srvVars, histVars>>
        ELSE /\ users' = saveUserPrfSalt(users, user.id, prfSalt)
             /\ resp' = Reply(op, username, "success")
             /\ UNCHANGED <<passkeys, challenges, bucket, nextChallenge,
                            histVars>>

\* POST /save-prf-salt when saveUserPrfSalt throws (D1 fails the UPDATE): the
\* catch block answers 500 with the error
SavePrfSalt_caught(username, prfSalt) ==
    /\ UserExists(getUser(users, username))
    /\ resp' = Reply("save-prf-salt", username, "Error: db")
    /\ UNCHANGED <<srvVars, histVars>>

\* POST /get-prf-salt
GetPrfSalt(username) ==
    LET user == getUser(users, username)
        op == "get-prf-salt"
    IN  /\ resp' =
             IF ~UserExists(user) THEN Reply(op, username, "User not found")
             ELSE [Reply(op, username, "salt") EXCEPT
                      !.salt = getUserPrfSalt(users, user.id)]
        /\ UNCHANGED <<srvVars, histVars>>

\* mutant: the flag tells whether the user exists
hasBlob_always(blobRef) == TRUE

\* !!(blobRef && blobRef.encrypted_blob_key)
hasBlob(blobRef) == blobRef.encrypted_blob_key # NoKey

\* mutant: the reply also carries the nonce of the reference
checkBlob_nonce(db, username) ==
    LET user == getUser(db, username)
        blobRef == getUserBlobReference(db, user.id)
        op == "check-blob"
    IN  IF ~UserExists(user) THEN Reply(op, username, "User not found")
        ELSE [Reply(op, username, "hasBlob") EXCEPT
                 !.flag = hasBlob(blobRef), !.nonce = blobRef.blob_nonce]

\* what POST /check-blob answers over these tables
checkBlob(db, username) ==
    LET user == getUser(db, username)
        blobRef == getUserBlobReference(db, user.id)
        op == "check-blob"
    IN  IF ~UserExists(user) THEN Reply(op, username, "User not found")
        ELSE [Reply(op, username, "hasBlob") EXCEPT !.flag = hasBlob(blobRef)]

\* POST /check-blob
CheckBlob(username) ==
    /\ resp' = checkBlob(users, username)
    /\ UNCHANGED <<srvVars, histVars>>


\* ------------------------------------- index.ts, one await at a time
\* Two requests of the Worker can be in progress at once: each is suspended
\* at its awaits, where the other one runs.
Slots == {"r1", "r2"}

\* no `response` in the body
NoResponse ==
    [type |-> "none", challenge |-> NoChallenge, id |-> Null, counter |-> 0,
     sig |-> "none"]

\* a slot: the request in it, what the request has read so far (blobRef;
\* expectedChallenge, passkey) and, for a complete* request, its result once
\* it has answered
NoRequest ==
    [op |-> "none", username |-> Null, nonce |-> NoText, blobRef |-> NoRef,
     response |-> NoResponse, expectedChallenge |-> NoChallenge,
     passkey |-> NoPasskey, result |-> "none"]

\* the slot holds no complete* request that is waiting for the verifier
Answered(r) == requests[r].op \notin CompleteOps \/ requests[r].result # "none"

\* POST /store-blob up to `await c.env.R2_BUCKET.put(blobKey, blobData)`
StoreBlob_put(r, username, encryptedBlob, nonce) ==
    LET user == getUser(users, username)
        blobKey == blobKeyOf(user.id)
    IN  /\ requests[r] = NoRequest
        /\ UserExists(user)
        /\ ~atobThrows(encryptedBlob)
        /\ bucket' = [bucket EXCEPT ![blobKey] = atob(encryptedBlob)]
        /\ putWith' = [putWith EXCEPT ![blobKey] = nonce]
        /\ requests' = [requests EXCEPT ![r] =
               [NoRequest EXCEPT !.op = "store-blob", !.username = username,
                                 !.nonce = nonce]]
        /\ submitted' = submitted
                            \cup {<<username, atob(encryptedBlob), nonce>>}
        /\ UNCHANGED <<users, passkeys, challenges, nextChallenge, resp,
                       issuedFor, ceremony, verifiedUsers, stored>>

\* POST /store-blob from `await saveUserBlobReference(...)` to its reply
StoreBlob_saveRef(r) ==
    LET username == requests[r].username
        user == getUser(users, username)
    IN  /\ requests[r].op = "store-blob"
        /\ users' = saveUserBlobReference(users, user.id, blobKeyOf(user.id),
                                          requests[r].nonce)
        /\ resp' = [Reply("store-blob", username, "success") EXCEPT
                       !.r2 = "put"]
        /\ stored' = stored \cup {username}
        /\ requests' = [requests EXCEPT ![r] = NoRequest]
        /\ UNCHANGED <<passkeys, challenges, bucket, nextChallenge, issuedFor,
                       ceremony, verifiedUsers, putWith, submitted>>

\* POST /retrieve-blob up to `await getUserBlobReference(...)`: without a
\* reference it answers at once
RetrieveBlob_ref(r, username) ==
    LET user == getUser(users, username)
        blobRef == getUserBlobReference(users, user.id)
    IN  /\ requests[r] = NoRequest
        /\ UserExists(user)
        /\ IF blobRef.encrypted_blob_key = NoKey
           THEN /\ resp' = retrieveBlobFrom(blobRef, bucket, username)
                /\ UNCHANGED requests
           ELSE /\ requests' = [requests EXCEPT ![r] =
                       [NoRequest EXCEPT !.op = "retrieve-blob",
                                         !.username = username,
                                         !.blobRef = blobRef]]
                /\ UNCHANGED resp
        /\ UNCHANGED <<srvVars, histVars, submitted>>

\* POST /retrieve-blob from `await c.env.R2_BUCKET.get(...)` to its reply
RetrieveBlob_get(r) ==
    /\ requests[r].op = "retrieve-blob"
    /\ resp' = retrieveBlobFrom(requests[r].blobRef, bucket,
                                requests[r].username)
    /\ requests' = [requests EXCEPT ![r] = NoRequest]
    /\ UNCHANGED <<srvVars, histVars, submitted>>

\* POST /verify-registration up to `await verifyRegistrationResponse(...)`:
\* challenges.get and getUser; an early return answers at once
VerifyRegistration_read(r, username, response) ==
    LET expectedChallenge == challenges[username]
        user == getUser(users, username)
    IN  /\ Answered(r)
        /\ IF expectedChallenge = NoChallenge \/ ~UserExists(user)
           THEN /\ VerifyRegistration(username, response)
                /\ requests' = [requests EXCEPT ![r] = NoRequest]
           ELSE /\ requests' = [requests EXCEPT ![r] =
                       [NoRequest EXCEPT
                           !.op = "verify-registration",
                           !.username = username,
                           !.response = response,
                           !.expectedChallenge = expectedChallenge]]
                /\ UNCHANGED <<srvVars, histVars, resp>>
        /\ UNCHANGED submitted

\* POST /verify-registration from the verifier to its reply: savePasskey and
\* challenges.delete act on the tables and the Map as they are now (the id of
\* a user row never changes, the row is the one the request read)
VerifyRegistration_answer(r) ==
    LET request == requests[r]
    IN  /\ request.op = "verify-registration"
        /\ request.result = "none"
        /\ verifyRegistrationAnswer(request.username, request.response,
                                    request.expectedChallenge,
                                    getUser(users, request.username))
        /\ requests' = [requests EXCEPT ![r].result = resp'.result]
        /\ UNCHANGED submitted

\* POST /verify-authentication up to `await verifyAuthenticationResponse(...)`:
\* challenges.get, getUser and getPasskeyById; an early return answers at once
VerifyAuthentication_read(r, username, response) ==
    LET expectedChallenge == challenges[username]
        user == getUser(users, username)
        passkey == getPasskeyById(passkeys, users, response.id)
    IN  /\ Answered(r)
        /\ IF \/ expectedChallenge = NoChallenge
              \/ ~UserExists(user)
              \/ ~PasskeyExists(passkey)
           THEN /\ VerifyAuthentication(username, response)
                /\ requests' = [requests EXCEPT ![r] = NoRequest]
           ELSE /\ requests' = [requests EXCEPT ![r] =
                       [NoRequest EXCEPT
                           !.op = "verify-authentication",
                           !.username = username,
                           !.response = response,
                           !.expectedChallenge = expectedChallenge,
                           !.passkey = passkey]]
                /\ UNCHANGED <<srvVars, histVars, resp>>
        /\ UNCHANGED submitted

\* POST /verify-authentication from the verifier to its reply:
\* updatePasskeyCounter and challenges.delete act on the table and the Map as
\* they are now
VerifyAuthentication_answer(r) ==
    LET request == requests[r]
    IN  /\ request.op = "verify-authentication"
        /\ request.result = "none"
        /\ verifyAuthenticationAnswer(request.username, request.response,
                                      request.expectedChallenge,
                                      request.passkey)
        /\ requests' = [requests EXCEPT ![r].result = resp'.result]
        /\ UNCHANGED submitted

\* --------------------------------------------------------------- App.tsx
Sessions == {"tab1", "tab2"}
Messages == {"m1", "m2"}        \* what the user types as the secret message

NoOptions == [challenge |-> NoChallenge, credentials |-> {}]

\* the useState initial values, and the locals of the handler in progress:
\* pc is the request the handler is about to make, optionsJSON lives until
\* the verify request is made, saltData and credential keep the last value
\* the session saw, closure is the prfOutput of the render in which the
\* running handler was started
InitialApp ==
    [username |-> "alice", message |-> "", isAuthenticated |-> FALSE,
     prfOutput |-> NoBytes, hasBlob |-> FALSE, userMessage |-> "",
     encryptedMessage |-> NoText, decryptedBlob |-> NoBytes,
     decryptedMessage |-> "",
     prfSalt |-> NoBytes,
     pc |-> "idle", saltData |-> NoText, currentPrfSalt |-> NoBytes,
     optionsJSON |-> NoOptions, credential |-> Null, closure |-> NoBytes]

\* the authenticator's PRF (hmac-secret) evaluation: a term of the credential
\* and of prf.eval.first, 32 bytes
PRF(credId, first) == <<"prf", credId, first>>

\* what the authenticator answers to startRegistration / startAuthentication;
\* the signature counter of a synced passkey stays 0
attestation(optionsJSON, credId) ==
    [type |-> "webauthn.create", challenge |-> optionsJSON.challenge,
     id |-> credId, counter |-> 0, sig |-> "valid"]

assertion(optionsJSON, credId) ==
    [type |-> "webauthn.get", challenge |-> optionsJSON.challenge,
     id |-> credId, counter |-> 0, sig |-> "valid"]

\* no tab made the last step
NoActor == <<>>

\* the last step called no function of crypto.ts whose outcome is recorded
NoCall ==
    [fn |-> "none", prfOutput |-> NoBytes, salt |-> NoBytes,
     outcome |-> "none", key |-> NoBytes]

\* what the last encrypt-and-store of a user put under seal: the message,
\* the key, the salt and the credential of the session that sealed it, and
\* whether the object and its recorded nonce are still the ones it wrote
NoSeal ==
    [plain |-> "", key |-> NoBytes, saltData |-> NoText,
     credential |-> Null, intact |-> FALSE]

\* onChange of the username input (rendered while not authenticated)
setUsername(t, username) ==
    LET app == tabs[t]
    IN  /\ app.pc = "idle"
        /\ ~app.isAuthenticated
        /\ app.username # username
        /\ tabs' = [tabs EXCEPT ![t] = [app EXCEPT !.username = username]]
        /\ UNCHANGED <<srvVars, histVars, resp, authenticator, sealed>>
        /\ call' = NoCall
        /\ UNCHANGED flightVars
        /\ actor' = <<t, "setUsername">>

\* handleRegister, to the reply of /generate-registration-options
handleRegister_options(t) ==
    LET app == tabs[t]
        username == app.username
    IN  /\ app.pc = "idle"
        /\ ~app.isAuthenticated
        /\ \E generated \in generatePrfSalt :
             LET currentPrfSalt ==
                     IF app.prfSalt # NoBytes THEN app.prfSalt ELSE generated
             IN  /\ GenerateRegistrationOptions(username)
                 /\ tabs' = [tabs EXCEPT ![t] = [app EXCEPT
                        !.message = "Starting registration...",
                        !.prfSalt = currentPrfSalt,
                        !.currentPrfSalt = currentPrfSalt,
                        !.optionsJSON =
                            [challenge |-> resp'.challenge,
                             credentials |->
                                 getUserPasskeys(passkeys, users',
                                     getUser(users', username).id)],
                        !.pc = "verify-registration"]]
        /\ UNCHANGED <<authenticator, sealed>>
        /\ call' = NoCall
        /\ UNCHANGED flightVars
        /\ actor' = <<t, "handleRegister_options">>

\* handleRegister: startRegistration and the reply of /verify-registration
handleRegister_verify(t) ==
    LET app == tabs[t]
        username == app.username
        excluded == app.optionsJSON.credentials \cap authenticator
        Caught == [app EXCEPT !.message = "Registration error",
                              !.optionsJSON = NoOptions,
                              !.pc = "idle"]
    IN  /\ app.pc = "verify-registration"
        /\ \/ \* startRegistration throws: an excluded credential is on the
              \* authenticator (InvalidStateError), or the user dismisses
              \* the prompt (NotAllowedError)
              /\ tabs' = [tabs EXCEPT ![t] = Caught]
              /\ UNCHANGED <<srvVars, histVars, resp, authenticator>>
           \/ /\ excluded = {}
              /\ \E credId \in CredIds \ authenticator :
                   /\ ~PasskeyExists(passkeys[credId])
                   /\ authenticator' = authenticator \cup {credId}
                   /\ VerifyRegistration(username,
                          attestation(app.optionsJSON, credId))
                   /\ tabs' = [tabs EXCEPT ![t] =
                          IF resp'.result = "verified"
                          THEN [app EXCEPT !.optionsJSON = NoOptions,
                                           !.pc = "save-prf-salt"]
                          ELSE [app EXCEPT !.message = "Registration failed",
                                           !.optionsJSON = NoOptions,
                                           !.pc = "idle"]]
        /\ UNCHANGED sealed
        /\ call' = NoCall
        /\ UNCHANGED flightVars
        /\ actor' = <<t, "handleRegister_verify">>

\* handleRegister: the salt is saved once the registration is verified
handleRegister_saveSalt(t) ==
    LET app == tabs[t]
        prfSaltBase64 == uint8ArrayToBase64Url(app.currentPrfSalt)
    IN  /\ app.pc = "save-prf-salt"
        \* the reply of the fetch is not looked at
        /\ \/ SavePrfSalt(app.username, prfSaltBase64)
           \/ SavePrfSalt_caught(app.username, prfSaltBase64)
        /\ tabs' = [tabs EXCEPT ![t] = [app EXCEPT
               !.message = "Registration successful", !.pc = "idle"]]
        /\ UNCHANGED <<authenticator, sealed>>
        /\ call' = NoCall
        /\ UNCHANGED flightVars
        /\ actor' = <<t, "handleRegister_saveSalt">>

\* mutant: a new salt at every login
currentPrfSaltOf_fresh(saltData, generated) == generated

\* the salt handleAuthenticate evaluates the PRF with
currentPrfSaltOf(saltData, generated) ==
    IF saltData # NoText THEN base64UrlToUint8Array(saltData) ELSE generated

\* handleAuthenticate, to the reply of /get-prf-salt
handleAuthenticate_salt(t) ==
    LET app == tabs[t]
        username == app.username
    IN  /\ app.pc = "idle"
        /\ ~app.isAuthenticated
        /\ GetPrfSalt(username)
        /\ \E generated \in generatePrfSalt :
             LET saltData == IF resp'.result = "salt" THEN resp'.salt
                             ELSE NoText
                 currentPrfSalt == currentPrfSaltOf(saltData, generated)
             IN  tabs' = [tabs EXCEPT ![t] =
                     IF saltData # NoText
                        /\ base64UrlToUint8ArrayThrows(saltData)
                     THEN [app EXCEPT !.message = "Authentication error"]
                     ELSE [app EXCEPT
                              !.message = "Starting authentication...",
                              !.saltData = saltData,
                              !.currentPrfSalt = currentPrfSalt,
                              !.prfSalt = currentPrfSalt,
                              !.pc = "generate-authentication-options"]]
        /\ UNCHANGED <<authenticator, sealed>>
        /\ call' = NoCall
        /\ UNCHANGED flightVars
        /\ actor' = <<t, "handleAuthenticate_salt">>

\* handleAuthenticate, to the reply of /generate-authentication-options
handleAuthenticate_options(t) ==
    LET app == tabs[t]
        username == app.username
    IN  /\ app.pc = "generate-authentication-options"
        /\ GenerateAuthenticationOptions(username)
        /\ tabs' = [tabs EXCEPT ![t] =
               IF resp'.result # "options"
               THEN [app EXCEPT !.message = "Authentication error",
                                !.pc = "idle"]
               ELSE [app EXCEPT
                        !.optionsJSON =
                            [challenge |-> resp'.challenge,
                             credentials |->
                                 getUserPasskeys(passkeys, users,
                                     getUser(users, username).id)],
                        !.pc = "verify-authentication"]]
        /\ UNCHANGED <<authenticator, sealed>>
        /\ call' = NoCall
        /\ UNCHANGED flightVars
        /\ actor' = <<t, "handleAuthenticate_options">>

\* handleAuthenticate: startAuthentication and the reply of
\* /verify-authentication
handleAuthenticate_verify(t) ==
    LET app == tabs[t]
        username == app.username
        allowed == app.optionsJSON.credentials \cap authenticator
        Caught == [app EXCEPT !.message = "Authentication error",
                              !.optionsJSON = NoOptions,
                              !.pc = "idle"]
    IN  /\ app.pc = "verify-authentication"
        /\ \/ \* startAuthentication throws NotAllowedError: no allowed
              \* credential on the authenticator, or the prompt is dismissed
              /\ tabs' = [tabs EXCEPT ![t] = Caught]
              /\ UNCHANGED <<srvVars, histVars, resp>>
           \/ \E credId \in allowed :
                /\ VerifyAuthentication(username,
                       assertion(app.optionsJSON, credId))
                /\ tabs' = [tabs EXCEPT ![t] =
                       IF resp'.result = "verified"
                       THEN [app EXCEPT
                                !.isAuthenticated = TRUE,
                                !.prfOutput = PRF(credId, app.currentPrfSalt),
                                !.credential = credId,
                                !.optionsJSON = NoOptions,
                                !.pc = "check-blob"]
                       ELSE [app EXCEPT !.message = "Authentication failed",
                                        !.optionsJSON = NoOptions,
                                        !.pc = "idle"]]
        /\ UNCHANGED <<authenticator, sealed>>
        /\ call' = NoCall
        /\ UNCHANGED flightVars
        /\ actor' = <<t, "handleAuthenticate_verify">>

\* handleAuthenticate, to the reply of /check-blob
handleAuthenticate_checkBlob(t) ==
    LET app == tabs[t]
    IN  /\ app.pc = "check-blob"
        /\ CheckBlob(app.username)
        /\ tabs' = [tabs EXCEPT ![t] = [app EXCEPT
               !.hasBlob = IF resp'.flag THEN TRUE ELSE app.hasBlob,
               !.message = "Successfully authenticated",
               !.pc = "idle"]]
        /\ UNCHANGED <<authenticator, sealed>>
        /\ call' = NoCall
        /\ UNCHANGED flightVars
        /\ actor' = <<t, "handleAuthenticate_checkBlob">>

\* mutant: the messages on the screen survive
loggedOut_keepsMessages(app) ==
    [InitialApp EXCEPT !.username = app.username,
                       !.encryptedMessage = app.encryptedMessage,
                       !.decryptedMessage = app.decryptedMessage]

\* the state handleLogout leaves: every piece of state but the username is
\* set to its initial value
loggedOut(app) == [InitialApp EXCEPT !.username = app.username]

\* handleLogout, no handler of the tab being in progress
handleLogout(t) ==
    LET app == tabs[t]
    IN  /\ app.pc = "idle"
        /\ app.isAuthenticated
        /\ tabs' = [tabs EXCEPT ![t] = loggedOut(app)]
        /\ UNCHANGED <<srvVars, histVars, resp, authenticator, sealed>>
        /\ call' = NoCall
        /\ UNCHANGED flightVars
        /\ actor' = <<t, "handleLogout">>

\* the salt argument of deriveEncryptionKey at its two call sites: none is
\* passed, the parameter takes its default
saltArgument(app) == DefaultSalt

\* the record of a call of deriveEncryptionKey that returned
derived(prfOutput, salt) ==
    [fn |-> "deriveEncryptionKey", prfOutput |-> prfOutput, salt |-> salt,
     outcome |-> "returns", key |-> deriveEncryptionKey(prfOutput, salt)]

\* mutant: the key is kept in the state, in place of the PRF output
encryptAndStoreDone_keepsKey(app, userMessage, encryptionKey, success) ==
    [app EXCEPT !.userMessage = userMessage,
                !.prfOutput = encryptionKey,
                !.hasBlob = success,
                !.message = IF success
                            THEN "Successfully encrypted and stored"
                            ELSE "Failed to store message"]

\* the state handleEncryptAndStore leaves once /store-blob has answered:
\* setHasBlob and setMessage; messageBytes, nonce, encryptionKey and
\* encryptedData are locals of the handler
encryptAndStoreDone(app, userMessage, encryptionKey, success) ==
    [app EXCEPT !.userMessage = userMessage,
                !.hasBlob = success,
                !.message = IF success
                            THEN "Successfully encrypted and stored"
                            ELSE "Failed to store message"]

\* handleEncryptAndStore (its button is disabled while hasBlob)
handleEncryptAndStore(t) ==
    LET app == tabs[t]
        username == app.username
    IN  /\ app.pc = "idle"
        /\ app.isAuthenticated
        /\ app.prfOutput # NoBytes
        /\ ~app.hasBlob
        /\ \E userMessage \in Messages, nonce \in generateNonce,
              fault \in Faults :
             LET messageBytes == TextEncode(userMessage)
                 encryptionKey ==
                     deriveEncryptionKey(app.prfOutput, saltArgument(app))
                 encryptedData == encryptData(encryptionKey, messageBytes,
                                              nonce)
                 encryptedBase64 == btoa(encryptedData)
                 nonceBase64 == uint8ArrayToBase64Url(nonce)
             IN  /\ StoreBlob(username, encryptedBase64, nonceBase64, fault)
                 /\ tabs' = [tabs EXCEPT ![t] =
                        [encryptAndStoreDone(app, userMessage, encryptionKey,
                                             resp'.result = "success")
                            EXCEPT !.encryptedMessage = encryptedBase64]]
                 /\ sealed' =
                        IF resp'.result = "success"
                        THEN [sealed EXCEPT ![username] =
                                 [plain |-> userMessage,
                                  key |-> encryptionKey,
                                  saltData |-> app.saltData,
                                  credential |-> app.credential,
                                  intact |-> TRUE]]
                        ELSE IF bucket' # bucket
                        THEN [sealed EXCEPT ![username].intact = FALSE]
                        ELSE sealed
        /\ call' = derived(app.prfOutput, saltArgument(app))
        /\ UNCHANGED <<authenticator, flightVars>>
        /\ actor' = <<t, "handleEncryptAndStore">>

\* the try block of handleRetrieveAndDecrypt over the reply of
\* /retrieve-blob: does it throw, and the text it decrypts otherwise
decryptThrows(response, encryptionKey) ==
    \/ response.result # "blob"
    \/ atobThrows(response.blob)
    \/ base64UrlToUint8ArrayThrows(response.nonce)
    \/ decryptDataThrows(encryptionKey, atob(response.blob),
                         base64UrlToUint8Array(response.nonce))

decryptedData(response, encryptionKey) ==
    decryptData(encryptionKey, atob(response.blob),
                base64UrlToUint8Array(response.nonce))

decryptedText(response, encryptionKey) ==
    TextDecode(decryptedData(response, encryptionKey))

\* handleRetrieveAndDecrypt (its button is rendered while hasBlob)
handleRetrieveAndDecrypt(t) ==
    LET app == tabs[t]
        encryptionKey == deriveEncryptionKey(app.prfOutput, saltArgument(app))
    IN  /\ app.pc = "idle"
        /\ app.isAuthenticated
        /\ app.prfOutput # NoBytes
        /\ app.hasBlob
        /\ RetrieveBlob(app.username)
        /\ tabs' = [tabs EXCEPT ![t] =
               IF decryptThrows(resp', encryptionKey)
               THEN [app EXCEPT !.message = "Decryption error"]
               ELSE [app EXCEPT
                        !.decryptedBlob =
                            decryptedData(resp', encryptionKey),
                        !.decryptedMessage =
                            decryptedText(resp', encryptionKey),
                        !.message = "Successfully decrypted message!"]]
        \* deriveEncryptionKey is called once the reply is decoded
        /\ call' = IF /\ resp'.result = "blob"
                      /\ ~atobThrows(resp'.blob)
                      /\ ~base64UrlToUint8ArrayThrows(resp'.nonce)
                   THEN derived(app.prfOutput, saltArgument(app))
                   ELSE NoCall
        /\ UNCHANGED <<authenticator, sealed, flightVars>>
        /\ actor' = <<t, "handleRetrieveAndDecrypt">>

\* handleLogout while a handler of the tab is suspended at a fetch (the
\* button is rendered whenever isAuthenticated): the state is reset, the
\* suspended handler and what it closed over are not
handleLogout_inFlight(t) ==
    LET app == tabs[t]
    IN  /\ app.pc # "idle"
        /\ app.isAuthenticated
        /\ tabs' = [tabs EXCEPT ![t] =
               [loggedOut(app) EXCEPT !.pc = app.pc,
                                      !.closure = app.closure]]
        /\ UNCHANGED <<srvVars, histVars, resp, authenticator, sealed>>
        /\ call' = NoCall
        /\ UNCHANGED flightVars
        /\ actor' = <<t, "handleLogout">>

\* handleRetrieveAndDecrypt up to `await fetch(.../retrieve-blob)`
handleRetrieveAndDecrypt_fetch(t) ==
    LET app == tabs[t]
    IN  /\ app.pc = "idle"
        /\ app.isAuthenticated
        /\ app.prfOutput # NoBytes
        /\ app.hasBlob
        /\ tabs' = [tabs EXCEPT ![t] = [app EXCEPT
               !.message = "Retrieving and decrypting message...",
               !.closure = app.prfOutput,
               !.pc = "retrieve-blob"]]
        /\ UNCHANGED <<srvVars, histVars, resp, authenticator, sealed>>
        /\ call' = NoCall
        /\ UNCHANGED flightVars
        /\ actor' = <<t, "handleRetrieveAndDecrypt_fetch">>

\* handleRetrieveAndDecrypt from the reply of /retrieve-blob: prfOutput is
\* the constant of the render the handler was started in
handleRetrieveAndDecrypt_reply(t) ==
    LET app == tabs[t]
        encryptionKey == deriveEncryptionKey(app.closure, saltArgument(app))
        Done(next) == [next EXCEPT !.closure = NoBytes, !.pc = "idle"]
    IN  /\ app.pc = "retrieve-blob"
        /\ RetrieveBlob(app.username)
        /\ tabs' = [tabs EXCEPT ![t] =
               IF decryptThrows(resp', encryptionKey)
               THEN Done([app EXCEPT !.message = "Decryption error"])
               ELSE Done([app EXCEPT
                        !.decryptedBlob =
                            decryptedData(resp', encryptionKey),
                        !.decryptedMessage =
                            decryptedText(resp', encryptionKey),
                        !.message = "Successfully decrypted message!"])]
        /\ call' = IF /\ resp'.result = "blob"
                      /\ ~atobThrows(resp'.blob)
                      /\ ~base64UrlToUint8ArrayThrows(resp'.nonce)
                   THEN derived(app.closure, saltArgument(app))
                   ELSE NoCall
        /\ UNCHANGED <<authenticator, sealed, flightVars>>
        /\ actor' = <<t, "handleRetrieveAndDecrypt_reply">>

\* ---------------------------------------------------------- the system
\* a fresh deployment: empty tables, empty bucket, no tab has done anything
Init ==
    /\ users = [u \in Usernames |-> NoUser]
    /\ passkeys = [k \in CredIds |-> NoPasskey]
    /\ challenges = [u \in Usernames |-> NoChallenge]
    /\ bucket = [k \in BlobKeys |-> NoObject]
    /\ nextChallenge = 0
    /\ resp = NoReply
    /\ issuedFor = [c \in 1..MaxChallenge |-> <<>>]
    /\ ceremony = [u \in Usernames |-> "NoChallenge"]
    /\ verifiedUsers = {}
    /\ putWith = [k \in BlobKeys |-> NoText]
    /\ stored = {}
    /\ tabs = [t \in Sessions |-> InitialApp]
    /\ authenticator = {}
    /\ sealed = [u \in Usernames |-> NoSeal]
    /\ actor = NoActor
    /\ call = NoCall
    /\ requests = [r \in Slots |-> NoRequest]
    /\ submitted = {}

\* a request that no tab of the client made
NoClientStep ==
    /\ actor' = NoActor
    /\ call' = NoCall
    /\ UNCHANGED <<tabs, authenticator, sealed, flightVars>>

\* a step of a suspended request: no tab made it either
NoTabStep ==
    /\ actor' = NoActor
    /\ call' = NoCall
    /\ UNCHANGED <<tabs, authenticator, sealed>>

Next ==
    \/ \E u \in Usernames : GenerateRegistrationOptions(u) /\ NoClientStep
    \/ \E u \in Usernames, r \in Responses :
          VerifyRegistration(u, r) /\ NoClientStep
    \/ \E u \in Usernames : GenerateAuthenticationOptions(u) /\ NoClientStep
    \/ \E u \in Usernames, r \in Responses :
          VerifyAuthentication(u, r) /\ NoClientStep
    \/ \E u \in Usernames, b \in EncodedBlobs, n \in Nonces, f \in Faults :
          StoreBlob(u, b, n, f) /\ NoClientStep
    \/ \E u \in Usernames : RetrieveBlob(u) /\ NoClientStep
    \/ \E u \in Usernames, s \in Salts : SavePrfSalt(u, s) /\ NoClientStep
    \/ \E u \in Usernames : GetPrfSalt(u) /\ NoClientStep
    \/ \E u \in Usernames : CheckBlob(u) /\ NoClientStep

Spec == Init /\ [][Next]_vars

\* The two ceremonies alone: the other handlers write neither the challenge
\* map nor the passkeys table.
NextCeremony ==
    \/ \E u \in Usernames : GenerateRegistrationOptions(u) /\ NoClientStep
    \/ \E u \in Usernames, r \in Responses :
          VerifyRegistration(u, r) /\ NoClientStep
    \/ \E u \in Usernames : GenerateAuthenticationOptions(u) /\ NoClientStep
    \/ \E u \in Usernames, r \in Responses :
          VerifyAuthentication(u, r) /\ NoClientStep

SpecCeremony == Init /\ [][NextCeremony]_vars

\* Registration and the salt endpoints.
NextSalt ==
    \/ \E u \in Usernames : GenerateRegistrationOptions(u) /\ NoClientStep
    \/ \E u \in Usernames, r \in Responses :
          VerifyRegistration(u, r) /\ NoClientStep
    \/ \E u \in Usernames, s \in Salts : SavePrfSalt(u, s) /\ NoClientStep
    \/ \E u \in Usernames : GetPrfSalt(u) /\ NoClientStep

SpecSalt == Init /\ [][NextSalt]_vars

\* User creation and the blob endpoints: the other handlers write neither the
\* bucket nor the blob columns of a user row.
NextBlob ==
    \/ \E u \in Usernames : GenerateRegistrationOptions(u) /\ NoClientStep
    \/ \E u \in Usernames, b \in EncodedBlobs, n \in Nonces, f \in Faults :
          StoreBlob(u, b, n, f) /\ NoClientStep
    \/ \E u \in Usernames : RetrieveBlob(u) /\ NoClientStep
    \/ \E u \in Usernames : CheckBlob(u) /\ NoClientStep

SpecBlob == Init /\ [][NextBlob]_vars

\* R2_BUCKET.get(key) can return null for a recorded key: the Worker deletes
\* no object, so the object was removed from the bucket outside it.
ObjectLost(key) ==
    /\ bucket[key] # NoObject
    /\ bucket' = [bucket EXCEPT ![key] = NoObject]
    /\ UNCHANGED <<users, passkeys, challenges, nextChallenge, resp,
                   histVars>>

\* The blob endpoints over a bucket that can lose objects.
NextBlobLoss ==
    \/ \E u \in Usernames : GenerateRegistrationOptions(u) /\ NoClientStep
    \/ \E u \in Usernames, b \in EncodedBlobs, n \in Nonces, f \in Faults :
          StoreBlob(u, b, n, f) /\ NoClientStep
    \/ \E u \in Usernames : RetrieveBlob(u) /\ NoClientStep
    \/ \E k \in BlobKeys : ObjectLost(k) /\ NoClientStep

SpecBlobLoss == Init /\ [][NextBlobLoss]_vars

\* The client: alice registered a passkey in an earlier life of the Worker
\* (the D1 rows persist, the challenge Map starts empty), the authenticator
\* holds her credential, two tabs show the login form.
InitClient ==
    /\ users = saveUserPrfSalt(
                   createUser([u \in Usernames |-> NoUser], "alice"), 1,
                   uint8ArrayToBase64Url(<<"rand", 32, "a">>))
    /\ passkeys = savePasskey([k \in CredIds |-> NoPasskey], "k1", 1, 0)
    /\ challenges = [u \in Usernames |-> NoChallenge]
    /\ bucket = [k \in BlobKeys |-> NoObject]
    /\ nextChallenge = 0
    /\ resp = NoReply
    /\ issuedFor = [c \in 1..MaxChallenge |-> <<>>]
    /\ ceremony = [u \in Usernames |-> "NoChallenge"]
    /\ verifiedUsers = {}
    /\ putWith = [k \in BlobKeys |-> NoText]
    /\ stored = {}
    /\ tabs = [t \in Sessions |-> InitialApp]
    /\ authenticator = {"k1"}
    /\ sealed = [u \in Usernames |-> NoSeal]
    /\ actor = NoActor
    /\ call = NoCall
    /\ requests = [r \in Slots |-> NoRequest]
    /\ submitted = {}

\* What the tabs do once logged in or logging in, and a /save-prf-salt
\* from elsewhere.
NextClient ==
    \/ \E t \in Sessions : handleAuthenticate_salt(t)
    \/ \E t \in Sessions : handleAuthenticate_options(t)
    \/ \E t \in Sessions : handleAuthenticate_verify(t)
    \/ \E t \in Sessions : handleAuthenticate_checkBlob(t)
    \/ \E t \in Sessions : handleLogout(t)
    \/ \E t \in Sessions : handleEncryptAndStore(t)
    \/ \E t \in Sessions : handleRetrieveAndDecrypt(t)
    \/ \E u \in Usernames, s \in Salts : SavePrfSalt(u, s) /\ NoClientStep

SpecClient == InitClient /\ [][NextClient]_vars

\* The tabs with Logout clicked at any moment it is on the screen, also
\* while a handler waits for a reply.
NextLogout ==
    \/ \E t \in Sessions : handleAuthenticate_salt(t)
    \/ \E t \in Sessions : handleAuthenticate_options(t)
    \/ \E t \in Sessions : handleAuthenticate_verify(t)
    \/ \E t \in Sessions : handleAuthenticate_checkBlob(t)
    \/ \E t \in Sessions : handleLogout(t)
    \/ \E t \in Sessions : handleLogout_inFlight(t)
    \/ \E t \in Sessions : handleEncryptAndStore(t)
    \/ \E t \in Sessions : handleRetrieveAndDecrypt_fetch(t)
    \/ \E t \in Sessions : handleRetrieveAndDecrypt_reply(t)

SpecLogout == InitClient /\ [][NextLogout]_vars

\* Registration from the tabs, on a fresh deployment.
NextRegister ==
    \/ \E t \in Sessions, u \in Usernames : setUsername(t, u)
    \/ \E t \in Sessions : handleRegister_options(t)
    \/ \E t \in Sessions : handleRegister_verify(t)
    \/ \E t \in Sessions : handleRegister_saveSalt(t)

SpecRegister == Init /\ [][NextRegister]_vars

\* deriveEncryptionKey on its own: key material and salts of several lengths
KeyMaterials ==
    {PRF(k, s) : k \in CredIds, s \in generatePrfSalt}
        \cup {<<"rand", 16, "a">>, <<"rand", 31, "a">>, <<"rand", 33, "a">>,
              <<"rand", 64, "a">>}

HkdfSalts ==
    generatePrfSalt \cup generateNonce
        \cup {DefaultSalt, <<"rand", 16, "a">>, <<"rand", 33, "a">>,
              <<"rand", 64, "a">>}

InitDerive ==
    /\ users = [u \in Usernames |-> NoUser]
    /\ passkeys = [k \in CredIds |-> NoPasskey]
    /\ challenges = [u \in Usernames |-> NoChallenge]
    /\ bucket = [k \in BlobKeys |-> NoObject]
    /\ nextChallenge = 0
    /\ resp = NoReply
    /\ issuedFor = [c \in 1..MaxChallenge |-> <<>>]
    /\ ceremony = [u \in Usernames |-> "NoChallenge"]
    /\ verifiedUsers = {}
    /\ putWith = [k \in BlobKeys |-> NoText]
    /\ stored = {}
    /\ tabs = [t \in Sessions |-> InitialApp]
    /\ authenticator = {}
    /\ sealed = [u \in Usernames |-> NoSeal]
    /\ actor = NoActor
    /\ requests = [r \in Slots |-> NoRequest]
    /\ submitted = {}
    /\ \E prfOutput \in KeyMaterials, salt \in HkdfSalts :
          call = [NoCall EXCEPT !.fn = "deriveEncryptionKey",
                                !.prfOutput = prfOutput, !.salt = salt,
                                !.outcome = "called"]

\* await deriveEncryptionKey(prfOutput, salt)
DeriveEncryptionKey ==
    /\ call.fn = "deriveEncryptionKey"
    /\ call.outcome = "called"
    /\ call' = IF deriveEncryptionKeyThrows(call.prfOutput, call.salt)
               THEN [call EXCEPT !.outcome = "throws"]
               ELSE [call EXCEPT
                        !.outcome = "returns",
                        !.key = deriveEncryptionKey(call.prfOutput,
                                                    call.salt)]
    /\ UNCHANGED <<srvVars, histVars, resp, cliVars, flightVars>>

NextDerive == DeriveEncryptionKey

SpecDerive == InitDerive /\ [][NextDerive]_vars

\* Two requests in progress at once on the blob endpoints of one user:
\* alice has a row in users (a /generate-registration-options was made),
\* nothing fails.
InitInterleave ==
    /\ users = createUser([u \in Usernames |-> NoUser], "alice")
    /\ passkeys = [k \in CredIds |-> NoPasskey]
    /\ challenges = [u \in Usernames |-> NoChallenge]
    /\ bucket = [k \in BlobKeys |-> NoObject]
    /\ nextChallenge = 0
    /\ resp = NoReply
    /\ issuedFor = [c \in 1..MaxChallenge |-> <<>>]
    /\ ceremony = [u \in Usernames |-> "NoChallenge"]
    /\ verifiedUsers = {}
    /\ putWith = [k \in BlobKeys |-> NoText]
    /\ stored = {}
    /\ tabs = [t \in Sessions |-> InitialApp]
    /\ authenticator = {}
    /\ sealed = [u \in Usernames |-> NoSeal]
    /\ actor = NoActor
    /\ call = NoCall
    /\ requests = [r \in Slots |-> NoRequest]
    /\ submitted = {}

NextInterleave ==
    \/ \E r \in Slots, u \in Usernames, b \in EncodedBlobs, n \in Nonces :
          StoreBlob_put(r, u, b, n) /\ NoTabStep
    \/ \E r \in Slots : StoreBlob_saveRef(r) /\ NoTabStep
    \/ \E r \in Slots, u \in Usernames : RetrieveBlob_ref(r, u) /\ NoTabStep
    \/ \E r \in Slots : RetrieveBlob_get(r) /\ NoTabStep
    \/ \E u \in Usernames : CheckBlob(u) /\ NoClientStep

SpecInterleave == InitInterleave /\ [][NextInterleave]_vars

\* Logging in without a stored salt: alice holds a passkey and her row has
\* no prf_salt (her registration was verified and /save-prf-salt was not
\* made, or did not succeed).
InitNoSalt ==
    /\ users = createUser([u \in Usernames |-> NoUser], "alice")
    /\ passkeys = savePasskey([k \in CredIds |-> NoPasskey], "k1", 1, 0)
    /\ challenges = [u \in Usernames |-> NoChallenge]
    /\ bucket = [k \in BlobKeys |-> NoObject]
    /\ nextChallenge = 0
    /\ resp = NoReply
    /\ issuedFor = [c \in 1..MaxChallenge |-> <<>>]
    /\ ceremony = [u \in Usernames |-> "NoChallenge"]
    /\ verifiedUsers = {}
    /\ putWith = [k \in BlobKeys |-> NoText]
    /\ stored = {}
    /\ tabs = [t \in Sessions |-> InitialApp]
    /\ authenticator = {"k1"}
    /\ sealed = [u \in Usernames |-> NoSeal]
    /\ actor = NoActor
    /\ call = NoCall
    /\ requests = [r \in Slots |-> NoRequest]
    /\ submitted = {}

NextNoSalt ==
    \/ \E t \in Sessions : handleAuthenticate_salt(t)
    \/ \E t \in Sessions : handleAuthenticate_options(t)
    \/ \E t \in Sessions : handleAuthenticate_verify(t)
    \/ \E t \in Sessions : handleAuthenticate_checkBlob(t)
    \/ \E t \in Sessions : handleLogout(t)

SpecNoSalt == InitNoSalt /\ [][NextNoSalt]_vars

\* the options a begin* returned, as far as the authenticator's answer
\* depends on them
optionsWith(challenge) == [challenge |-> challenge, credentials |-> {}]

\* Two complete* requests in progress at once: alice holds a passkey, every
\* response is what an authenticator signed for some challenge.
NextRace ==
    \/ \E u \in Usernames : GenerateRegistrationOptions(u) /\ NoClientStep
    \/ \E u \in Usernames : GenerateAuthenticationOptions(u) /\ NoClientStep
    \/ \E r \in Slots, u \in Usernames, c \in 1..MaxChallenge,
          k \in CredIds :
          VerifyRegistration_read(r, u, attestation(optionsWith(c), k))
              /\ NoTabStep
    \/ \E r \in Slots : VerifyRegistration_answer(r) /\ NoTabStep
    \/ \E r \in Slots, u \in Usernames, c \in 1..MaxChallenge,
          k \in CredIds :
          VerifyAuthentication_read(r, u, assertion(optionsWith(c), k))
              /\ NoTabStep
    \/ \E r \in Slots : VerifyAuthentication_answer(r) /\ NoTabStep

SpecRace == InitNoSalt /\ [][NextRace]_vars

\* Registration next to everything a row of users and the bucket can hold:
\* passkeys, salts and blobs are written between the begin* calls.
NextFrame ==
    \/ \E u \in Usernames : GenerateRegistrationOptions(u) /\ NoClientStep
    \/ \E u \in Usernames, c \in 1..MaxChallenge, k \in CredIds :
          VerifyRegistration(u, attestation(optionsWith(c), k))
              /\ NoClientStep
    \/ \E u \in Usernames, s \in Salts : SavePrfSalt(u, s) /\ NoClientStep
    \/ \E u \in Usernames, b \in Blobs :
          StoreBlob(u, btoa(b), uint8ArrayToBase64Url(<<"rand", 12, "a">>),
                    "none") /\ NoClientStep

SpecFrame == Init /\ [][NextFrame]_vars


\* ============================================================== claims
kindOf(op) ==
    IF op = "verify-registration" THEN "register" ELSE "authenticate"

beginOf(kind) ==
    IF kind = "register" THEN "generate-registration-options"
    ELSE "generate-authentication-options"

\* the last challenge issued for (username, kind)
LastIssued(username, kind) ==
    LET cs == {c \in 1..MaxChallenge : issuedFor[c] = <<username, kind>>}
    IN  IF cs = {} THEN NoChallenge
        ELSE CHOOSE c \in cs : \A d \in cs : d <= c

\* the challenge a completion of this kind for this username has pending
Pending(ch, username, kind) ==
    IF ch[username] # NoChallenge /\ issuedFor[ch[username]] = <<username, kind>>
    THEN ch[username] ELSE NoChallenge

\* C1: a complete* call that follows a verified=true completion for the same
\* username, with no begin* in between, fails with "Challenge not found".
C1_NoSecondCompletion ==
    (resp.op \in CompleteOps /\ resp.before = "Verified")
        => resp.result = "Challenge not found"

C1_Witness ==
    /\ resp.op \in CompleteOps
    /\ resp.before = "Verified"
    /\ resp.result = "Challenge not found"

\* C2: a challenge is bound to its (username, kind): a verified completion
\* carries a challenge that was issued by the begin* of the same kind for the
\* same username, and a begin* of one kind leaves the pending challenge of the
\* other kind of that username in place.
C2_ChallengeBoundToKind ==
    [][/\ (resp'.op \in CompleteOps /\ resp'.result = "verified")
            => issuedFor'[resp'.challenge] = <<resp'.username, kindOf(resp'.op)>>
       /\ \A u \in Usernames, k \in Kinds :
            (/\ Pending(challenges, u, k) # NoChallenge
             /\ resp'.op = beginOf(CHOOSE j \in Kinds : j # k)
             /\ resp'.username = u
             /\ resp'.result = "options"
             /\ nextChallenge' # nextChallenge)
                => Pending(challenges', u, k) = Pending(challenges, u, k)]_vars

\* C3: a verified completion carries the challenge most recently issued for
\* its (username, kind).
C3_LatestChallengeOnly ==
    (resp.op \in CompleteOps /\ resp.result = "verified")
        => resp.challenge = LastIssued(resp.username, kindOf(resp.op))

\* C4: a completion that reached the verifier consumes the challenge whether
\* it was verified or rejected: none is pending afterwards, and the next
\* complete* without a begin* fails with "Challenge not found".
C4_RejectedConsumes ==
    /\ \A u \in Usernames :
          ceremony[u] \in {"Verified", "Rejected"} => challenges[u] = NoChallenge
    /\ (resp.op \in CompleteOps /\ resp.before = "Rejected")
          => resp.result = "Challenge not found"

\* C7: the stored signature counter of a credential never decreases.
C7_CounterMonotonic ==
    [][\A k \in CredIds : passkeys'[k].counter >= passkeys[k].counter]_vars

C7_Witness ==
    /\ resp.op = "verify-authentication"
    /\ resp.result = "verified"
    /\ resp.reported > 1
    /\ passkeys[resp.id].counter = resp.reported

\* the step is a /verify-authentication that got as far as the verifier
ReachedVerifier == resp'.op = "verify-authentication" /\ resp'.id # Null

\* C8 as stated: a completeAuthentication whose reported counter does not
\* strictly advance past the stored one is not verified and leaves the stored
\* counter unchanged.
C8_StrictAdvance ==
    [][(ReachedVerifier /\ resp'.reported <= passkeys[resp'.id].counter)
        => /\ resp'.result # "verified"
           /\ passkeys'[resp'.id].counter = passkeys[resp'.id].counter]_vars

\* C8 amended: such a call leaves the stored counter unchanged, and it is
\* not verified unless the reported and the stored counter are both 0.
C8_AdvanceUnlessZero ==
    [][(ReachedVerifier /\ resp'.reported <= passkeys[resp'.id].counter)
        => /\ passkeys'[resp'.id].counter = passkeys[resp'.id].counter
           /\ (resp'.reported > 0 \/ passkeys[resp'.id].counter > 0)
                 => resp'.result # "verified"]_vars

C8_Witness ==
    /\ resp.op = "verify-authentication"
    /\ resp.id # Null
    /\ resp.result = "Error: Response counter value"
    /\ resp.reported > 0
    /\ resp.reported <= passkeys[resp.id].counter


\* C5: a PRF salt, once persisted for a user, never changes.
C5_SaltNeverChanges ==
    [][\A u \in Usernames :
          users[u].prf_salt # NoText
              => users'[u].prf_salt = users[u].prf_salt]_vars

\* C6: a user's stored salt is modified only after a ceremony was verified
\* for that username.
C6_SaltNeedsAuthentication ==
    [][\A u \in Usernames :
          users'[u].prf_salt # users[u].prf_salt => u \in verifiedUsers]_vars

\* C9: the nonce in a user's blob record is the nonce that was submitted with
\* the ciphertext stored under that user's blob key.
C9_NonceMatchesCiphertext ==
    \A u \in Usernames :
        users[u].encrypted_blob_key # NoKey
            => users[u].blob_nonce = putWith[users[u].encrypted_blob_key]

\* C10: a user row that holds a blob key has an object under that key in the
\* bucket, also after a store-blob that failed half way.
C10_NoDanglingPointer ==
    \A u \in Usernames :
        users[u].encrypted_blob_key # NoKey
            => bucket[users[u].encrypted_blob_key] # NoObject

\* a store-blob failed between its two writes for a user who holds a pointer
C10_Witness ==
    /\ resp.op = "store-blob"
    /\ resp.result = "Error: db"
    /\ users[resp.username].encrypted_blob_key # NoKey
    /\ bucket[users[resp.username].encrypted_blob_key] # NoObject
    /\ \E u \in Usernames :
          /\ users[u].id # 0
          /\ users[u].encrypted_blob_key = NoKey
          /\ bucket[blobKeyOf(users[u].id)] # NoObject


\* the tab t made the step, in this handler
Acted(t, handler) == actor' = <<t, handler>>

\* the key tab t derives from the PRF output it holds
KeyOf(app) == deriveEncryptionKey(app.prfOutput, saltArgument(app))

\* C11: a store-blob writes the object under the key derived from the user id
\* and no other object, and while the last store of a user is the one that
\* succeeded, a retrieve-and-decrypt with the key of that store returns the
\* plaintext of that store (the second of two), and one with another key
\* returns none.
C11_SecondStoreWins ==
    [][/\ \A t \in Sessions :
            Acted(t, "handleEncryptAndStore")
                => LET u == tabs[t].username
                   IN  /\ \A k \in BlobKeys \ {blobKeyOf(users[u].id)} :
                             bucket'[k] = bucket[k]
                       /\ users'[u].encrypted_blob_key
                             \in {users[u].encrypted_blob_key,
                                  blobKeyOf(users[u].id)}
                       /\ resp'.result = "success"
                             => /\ users'[u].encrypted_blob_key
                                      = blobKeyOf(users[u].id)
                                /\ bucket'[blobKeyOf(users[u].id)]
                                      = encryptData(call'.key,
                                            TextEncode(tabs'[t].userMessage),
                                            base64UrlToUint8Array(
                                                users'[u].blob_nonce))
       /\ \A t \in Sessions :
            (/\ Acted(t, "handleRetrieveAndDecrypt")
             /\ sealed[tabs[t].username].intact)
                => IF KeyOf(tabs[t]) = sealed[tabs[t].username].key
                   THEN /\ tabs'[t].message = "Successfully decrypted message!"
                        /\ tabs'[t].decryptedMessage
                              = sealed[tabs[t].username].plain
                   ELSE /\ tabs'[t].message = "Decryption error"
                        /\ tabs'[t].decryptedMessage
                              = tabs[t].decryptedMessage]_vars

\* two tabs stored, one message each; a tab then decrypted the message of
\* the second store, while the tab of the first store still shows its own
C11_Witness ==
    \E t \in Sessions, first \in Sessions :
        /\ actor = <<t, "handleRetrieveAndDecrypt">>
        /\ tabs[t].message = "Successfully decrypted message!"
        /\ tabs[t].decryptedMessage = sealed[tabs[t].username].plain
        /\ sealed[tabs[t].username].intact
        /\ tabs[first].username = tabs[t].username
        /\ tabs[first].message = "Successfully encrypted and stored"
        /\ tabs[first].userMessage # sealed[tabs[t].username].plain

\* C12: for an existing user, check-blob answers true exactly when a
\* store-blob has succeeded for that user, whatever was retrieved since.
C12_CheckBlobTracksStore ==
    (resp.op = "check-blob" /\ UserExists(users[resp.username]))
        => /\ resp.result = "hasBlob"
           /\ resp.flag = (resp.username \in stored)

C12_Witness ==
    /\ resp.op = "check-blob"
    /\ resp.flag
    /\ resp.username \in stored
    /\ \E u \in Usernames : UserExists(users[u]) /\ u \notin stored

\* C13: a check-blob step calls no R2 method, leaves the tables, the bucket
\* and the challenge map as they were, and its reply carries no ciphertext,
\* nonce or salt.
C13_CheckBlobPure ==
    [][resp'.op = "check-blob"
        => /\ users' = users
           /\ passkeys' = passkeys
           /\ challenges' = challenges
           /\ bucket' = bucket
           /\ resp'.r2 = "none"
           /\ resp'.blob = NoText
           /\ resp'.nonce = NoText
           /\ resp'.salt = NoText]_vars

\* check-blob answered true for a user whose object and nonce are stored
C13_Witness ==
    /\ resp.op = "check-blob"
    /\ resp.flag
    /\ users[resp.username].blob_nonce # NoText
    /\ bucket[users[resp.username].encrypted_blob_key] # NoObject

\* C14: retrieve-blob answers "No blob found for user" exactly when the user
\* has no blob reference and the distinct "Blob not found in storage" exactly
\* when the reference is there and the object is not; neither reply carries
\* ciphertext or nonce.
C14_MissingBlobErrors ==
    [][(/\ resp'.op = "retrieve-blob"
        /\ users' = users
        /\ bucket' = bucket
        /\ UserExists(users[resp'.username]))
        => LET row == users[resp'.username]
               noRecord == row.encrypted_blob_key = NoKey
               noObject == ~noRecord /\ bucket[row.encrypted_blob_key] = NoObject
           IN  /\ (resp'.result = "No blob found for user") = noRecord
               /\ (resp'.result = "Blob not found in storage") = noObject
               /\ (noRecord \/ noObject)
                     => resp'.blob = NoText /\ resp'.nonce = NoText]_vars

\* the reference is there, the object is not, and retrieve-blob said so
C14_Witness ==
    /\ resp.op = "retrieve-blob"
    /\ resp.result = "Blob not found in storage"
    /\ users[resp.username].encrypted_blob_key # NoKey
    /\ bucket[users[resp.username].encrypted_blob_key] = NoObject

\* C15: right after an encrypt-and-store that succeeded, check-blob answers
\* true for the user and retrieve-blob followed by decryption with the key of
\* that session returns the message that was encrypted.
C15_RoundTrip ==
    [][\A t \in Sessions :
          (Acted(t, "handleEncryptAndStore") /\ resp'.result = "success")
              => LET app == tabs'[t]
                     response == retrieveBlob(users', bucket', app.username)
                 IN  /\ checkBlob(users', app.username).flag
                     /\ call'.key = KeyOf(app)
                     /\ ~decryptThrows(response, call'.key)
                     /\ decryptedText(response, call'.key)
                           = app.userMessage]_vars

\* an authenticated tab encrypted and stored a message
C15_Witness ==
    \E t \in Sessions :
        /\ actor = <<t, "handleEncryptAndStore">>
        /\ resp.op = "store-blob"
        /\ resp.result = "success"
        /\ tabs[t].isAuthenticated
        /\ tabs[t].hasBlob
        /\ tabs[t].userMessage \in Messages

\* C16: when an authentication is verified in a tab that fetched the stored
\* salt the sealing session had fetched, with the credential of the sealing
\* session, the PRF output gives the key of the sealing session, and
\* decrypting the stored blob with it returns the sealed plaintext.
C16_CrossSession ==
    [][\A t \in Sessions :
          LET u == tabs[t].username
          IN  (/\ Acted(t, "handleAuthenticate_verify")
               /\ resp'.result = "verified"
               /\ sealed[u].intact
               /\ tabs'[t].credential = sealed[u].credential
               /\ tabs'[t].saltData = sealed[u].saltData)
                  => LET response == retrieveBlob(users', bucket', u)
                     IN  /\ KeyOf(tabs'[t]) = sealed[u].key
                         /\ ~decryptThrows(response, KeyOf(tabs'[t]))
                         /\ decryptedText(response, KeyOf(tabs'[t]))
                               = sealed[u].plain]_vars

\* a login after the blob was sealed, with the same credential and salt
C16_Witness ==
    \E t \in Sessions :
        /\ actor = <<t, "handleAuthenticate_verify">>
        /\ resp.result = "verified"
        /\ sealed[tabs[t].username].intact
        /\ tabs[t].credential = sealed[tabs[t].username].credential
        /\ tabs[t].saltData = sealed[tabs[t].username].saltData
        /\ tabs[t].prfOutput # NoBytes

\* C17: a retrieve-and-decrypt in a session that fetched another stored salt
\* than the sealing session derives another key, ends in a decryption error
\* and decrypts nothing.
C17_SaltDriftDetected ==
    [][\A t \in Sessions :
          LET u == tabs[t].username
          IN  (/\ Acted(t, "handleRetrieveAndDecrypt")
               /\ sealed[u].intact
               /\ tabs[t].saltData # sealed[u].saltData)
                  => /\ call'.key # sealed[u].key
                     /\ tabs'[t].message = "Decryption error"
                     /\ tabs'[t].decryptedMessage
                           = tabs[t].decryptedMessage]_vars

\* the stored salt is no longer the one the sealing session had fetched,
\* and a session that logged in with the new one failed to decrypt
C17_Witness ==
    \E t \in Sessions :
        /\ actor = <<t, "handleRetrieveAndDecrypt">>
        /\ resp.result = "blob"
        /\ sealed[tabs[t].username].intact
        /\ tabs[t].saltData # sealed[tabs[t].username].saltData
        /\ tabs[t].saltData = users[tabs[t].username].prf_salt
        /\ tabs[t].message = "Decryption error"
        /\ tabs[t].decryptedMessage = ""

\* C18: the key a tab encrypts or decrypts with is derived from the PRF
\* output it holds with the salt it fetched for the user as the HKDF salt.
C18_KeyFromOutputAndSalt ==
    [][\A t \in Sessions :
          (\/ Acted(t, "handleEncryptAndStore")
           \/ Acted(t, "handleRetrieveAndDecrypt") /\ resp'.result = "blob")
              => /\ call'.fn = "deriveEncryptionKey"
                 /\ call'.prfOutput = tabs[t].prfOutput
                 /\ call'.salt = tabs[t].prfSalt]_vars

\* C20: deriveEncryptionKey called with key material or a salt that is not
\* 32 bytes long throws and returns no key, and it returns a key otherwise.
C20_RejectsBadLength ==
    (call.fn = "deriveEncryptionKey" /\ call.outcome # "called")
        => IF byteLength(call.prfOutput) = 32 /\ byteLength(call.salt) = 32
           THEN call.outcome = "returns" /\ call.key # NoBytes
           ELSE call.outcome = "throws" /\ call.key = NoBytes

\* C21: every nonce recorded in a user's blob reference is the encoding of
\* exactly 12 bytes, as a fresh nonce of encrypt-and-store is.
C21_NonceTwelveBytes ==
    \A u \in Usernames :
        users[u].blob_nonce # NoText
            => /\ ~base64UrlToUint8ArrayThrows(users[u].blob_nonce)
               /\ byteLength(base64UrlToUint8Array(users[u].blob_nonce)) = 12

\* the verifier of /verify-registration reported verified=true
VerifierAccepted(reply) ==
    reply.result \in {"verified", "Error: UNIQUE constraint failed"}

\* C22: a /verify-registration call writes the passkeys table exactly when
\* its verifier reports verified=true, and then the challenge is deleted;
\* when the verifier reports verified=false the reply is verified=false and
\* nothing is written.
C22_PersistedIffVerified ==
    [][resp'.op = "verify-registration"
        => /\ (passkeys' # passkeys) = VerifierAccepted(resp')
           /\ VerifierAccepted(resp')
                 => /\ resp'.result = "verified"
                    /\ challenges'[resp'.username] = NoChallenge
           /\ resp'.result = "not verified" => passkeys' = passkeys]_vars

\* the replies of a complete* call that found something missing
NotFound == {"Challenge not found", "User not found", "Passkey not found"}

\* C23: a complete* call for a user without a pending challenge, for a user
\* that does not exist or, for authentication, with a credential id that is
\* not in the passkeys table is answered with a not-found error, and a call
\* answered so changes no table, no object and no pending challenge.
C23_MissingIsNotFound ==
    [][resp'.op \in CompleteOps
        => LET u == resp'.username
           IN  /\ resp'.result \notin NotFound
                     => /\ challenges[u] # NoChallenge
                        /\ users[u].id # 0
                        /\ resp'.op = "verify-authentication"
                              => passkeys[resp'.id].internal_user_id # 0
               /\ resp'.result \in NotFound
                     => /\ users' = users
                        /\ passkeys' = passkeys
                        /\ challenges' = challenges
                        /\ bucket' = bucket]_vars

\* an authentication with an unknown credential id was refused while the
\* user had a pending challenge, which is still pending
C23_Witness ==
    /\ resp.op = "verify-authentication"
    /\ resp.result = "Passkey not found"
    /\ users[resp.username].id # 0
    /\ challenges[resp.username] # NoChallenge

\* C24: /generate-authentication-options for a username without a row or
\* without a passkey answers "User not found" or "No passkeys found for
\* user", draws no challenge and leaves the pending one in place.
C24_NoChallengeWithoutPasskey ==
    [][resp'.op = "generate-authentication-options"
        => LET u == resp'.username
               noUser == users[u].id = 0
               noPasskey == \A k \in CredIds :
                                passkeys[k].internal_user_id # users[u].id
           IN  (noUser \/ noPasskey)
                  => /\ resp'.result = IF noUser THEN "User not found"
                                       ELSE "No passkeys found for user"
                     /\ challenges' = challenges
                     /\ nextChallenge' = nextChallenge]_vars

\* a user who is registering (a challenge is pending, no passkey yet) asked
\* for authentication options and was refused
C24_Witness ==
    /\ resp.op = "generate-authentication-options"
    /\ resp.result = "No passkeys found for user"
    /\ challenges[resp.username] # NoChallenge
    /\ ceremony[resp.username] = "ChallengeIssued"

\* C25: when an authentication is verified in a tab that found no stored
\* salt, the salt it generated and evaluated the PRF with is the user's
\* stored salt.
C25_LazySaltPersisted ==
    [][\A t \in Sessions :
          (/\ Acted(t, "handleAuthenticate_verify")
           /\ resp'.result = "verified"
           /\ tabs[t].saltData = NoText)
              => users'[tabs[t].username].prf_salt
                    = uint8ArrayToBase64Url(tabs[t].currentPrfSalt)]_vars

\* a byte string or a text that is, or encodes in base64, a term with one of
\* these tags; what is inside a ciphertext does not count
RECURSIVE Carries(_, _)
Carries(x, tags) ==
    /\ x # <<>>
    /\ \/ x[1] \in tags
       \/ x[1] \in {"b64", "b64url"} /\ Carries(x[2], tags)

\* C26: in no state does a byte-valued piece of the React state, a column
\* of users or an object of the bucket hold a derived key.
C26_KeyNotRetained ==
    /\ \A t \in Sessions :
          /\ ~Carries(tabs[t].prfOutput, {"hkdf"})
          /\ ~Carries(tabs[t].prfSalt, {"hkdf"})
          /\ ~Carries(tabs[t].currentPrfSalt, {"hkdf"})
          /\ ~Carries(tabs[t].saltData, {"hkdf"})
    /\ \A u \in Usernames :
          /\ ~Carries(users[u].prf_salt, {"hkdf"})
          /\ ~Carries(users[u].blob_nonce, {"hkdf"})
    /\ \A k \in BlobKeys : ~Carries(bucket[k], {"hkdf"})

\* a tab derived the key, decrypted with it, and holds the plaintext
C26_Witness ==
    \E t \in Sessions :
        /\ actor = <<t, "handleRetrieveAndDecrypt">>
        /\ call.fn = "deriveEncryptionKey"
        /\ call.key = KeyOf(tabs[t])
        /\ tabs[t].decryptedMessage \in Messages

\* C27: an encrypt-and-store that succeeded leaves the tab without its PRF
\* output.
C27_PrfOutputCleared ==
    [][\A t \in Sessions :
          (Acted(t, "handleEncryptAndStore") /\ resp'.result = "success")
              => tabs'[t].prfOutput = NoBytes]_vars

C29_RecordReadWhole ==
    /\ \A u \in Usernames :
          (users[u].encrypted_blob_key = NoKey)
              = (users[u].blob_nonce = NoText)
    /\ \A r \in Slots :
          requests[r].op = "retrieve-blob"
              => LET ref == requests[r].blobRef
                     u == requests[r].username
                 IN  /\ ref.encrypted_blob_key = blobKeyOf(users[u].id)
                     /\ ref.blob_nonce # NoText
                     /\ \E s \in submitted :
                            s[1] = u /\ s[3] = ref.blob_nonce

\* a /retrieve-blob holds the reference of one store while the row has the
\* nonce of a later one and a third one has put its object
C29_Witness ==
    \E r \in Slots, w \in Slots :
        /\ requests[r].op = "retrieve-blob"
        /\ requests[w].op = "store-blob"
        /\ requests[w].username = requests[r].username
        /\ requests[r].blobRef.blob_nonce
              # users[requests[r].username].blob_nonce

\* C30: the ciphertext and the nonce of a /retrieve-blob reply were
\* submitted together by one /store-blob request.
C30_RetrievedPairSubmittedTogether ==
    (resp.op = "retrieve-blob" /\ resp.result = "blob")
        => <<resp.username, atob(resp.blob), resp.nonce>> \in submitted

\* C31: once every /store-blob in progress has completed, the object under a
\* user's blob key and the nonce of the user's record were submitted together
\* by one /store-blob request.
C31_FinalPairFromOneRequest ==
    (\A r \in Slots : requests[r].op # "store-blob")
        => \A u \in Usernames :
              users[u].encrypted_blob_key # NoKey
                  => <<u, bucket[users[u].encrypted_blob_key],
                       users[u].blob_nonce>> \in submitted

\* C32: two complete* requests for the same username that read the same
\* pending challenge are not both answered verified=true.
C32_OneVerifiedPerChallenge ==
    \A r \in Slots, q \in Slots :
        (/\ r # q
         /\ requests[r].result = "verified"
         /\ requests[q].result = "verified"
         /\ requests[r].username = requests[q].username)
            => requests[r].expectedChallenge # requests[q].expectedChallenge

\* C33: a /verify-authentication for a username is answered verified=true
\* only with a credential id that is registered to that username's row, and
\* the counter it updates is that credential's.
C33_CredentialOfTheUser ==
    [][(resp'.op = "verify-authentication" /\ resp'.result = "verified")
        => /\ passkeys[resp'.id].internal_user_id = users[resp'.username].id
           /\ \A k \in CredIds :
                 passkeys'[k] # passkeys[k]
                     => passkeys[k].internal_user_id
                            = users[resp'.username].id]_vars

\* C37: no tab sends a /store-blob for a user whose row already holds a
\* blob reference.
C37_OneMessagePerUser ==
    [][\A t \in Sessions :
          Acted(t, "handleEncryptAndStore")
              => users[tabs[t].username].encrypted_blob_key = NoKey]_vars

\* C40: a /store-blob for a username writes the bucket or the users table
\* only if a ceremony has been verified for that username.
C40_StoreNeedsAuthentication ==
    [][(resp'.op = "store-blob" /\ (bucket' # bucket \/ users' # users))
        => resp'.username \in verifiedUsers]_vars

\* C34: a /generate-registration-options for a username leaves the passkeys
\* table, the bucket, the pending challenges of the other usernames and every
\* existing row of users as they are; it adds a row, with a new id and no
\* salt and no blob reference, only when the username has none.
C34_BeginRegistrationFrame ==
    [][resp'.op = "generate-registration-options"
        => LET u == resp'.username
           IN  /\ passkeys' = passkeys
               /\ bucket' = bucket
               /\ \A v \in Usernames \ {u} :
                     /\ users'[v] = users[v]
                     /\ challenges'[v] = challenges[v]
               /\ users[u].id # 0 => users'[u] = users[u]
               /\ users[u].id = 0
                     => /\ users'[u] = [NoUser EXCEPT !.id = users'[u].id]
                        /\ users'[u].id # 0
                        /\ \A v \in Usernames \ {u} :
                              users[v].id # users'[u].id]_vars

\* options were issued again for a user who has a passkey, a salt and a blob,
\* all of which are still there
C34_Witness ==
    /\ resp.op = "generate-registration-options"
    /\ resp.before = "Verified"
    /\ users[resp.username].prf_salt # NoText
    /\ users[resp.username].encrypted_blob_key # NoKey
    /\ bucket[blobKeyOf(users[resp.username].id)] # NoObject
    /\ \E k \in CredIds :
          passkeys[k].internal_user_id = users[resp.username].id

\* the credential ids registered to the row of this username
RegisteredTo(pk, db, username) ==
    {k \in CredIds : db[username].id # 0
                       /\ pk[k].internal_user_id = db[username].id}

C36_ReportedSaltIsStored ==
    [][\A t \in Sessions :
          (/\ Acted(t, "handleRegister_saveSalt")
           /\ tabs'[t].message = "Registration successful")
              => users'[tabs[t].username].prf_salt
                    = uint8ArrayToBase64Url(tabs[t].currentPrfSalt)]_vars

\* C38: a handleLogout leaves the tab with isAuthenticated false, no PRF
\* output, no PRF salt, the blob flag off, no decrypted bytes and the typed,
\* the encrypted, the decrypted and the status message empty.
C38_LogoutClears ==
    [][\A t \in Sessions :
          Acted(t, "handleLogout")
              => /\ ~tabs'[t].isAuthenticated
                 /\ tabs'[t].prfOutput = NoBytes
                 /\ tabs'[t].prfSalt = NoBytes
                 /\ ~tabs'[t].hasBlob
                 /\ tabs'[t].userMessage = ""
                 /\ tabs'[t].encryptedMessage = NoText
                 /\ tabs'[t].decryptedBlob = NoBytes
                 /\ tabs'[t].decryptedMessage = ""
                 /\ tabs'[t].message = ""]_vars

\* a tab logged out right after a message was retrieved and decrypted, in a
\* deployment where a message had been encrypted and stored
C38_Witness ==
    \E t \in Sessions :
        /\ actor = <<t, "handleLogout">>
        /\ resp.op = "retrieve-blob"
        /\ resp.result = "blob"
        /\ resp.username = tabs[t].username
        /\ sealed[tabs[t].username].plain \in Messages
        /\ tabs[t] = loggedOut(tabs[t])

\* the steps of handleAuthenticate
AuthenticateSteps ==
    {"handleAuthenticate_salt", "handleAuthenticate_options",
     "handleAuthenticate_verify", "handleAuthenticate_checkBlob"}

\* C39: in a tab that is not authenticated (it has logged out, or never
\* logged in), no step other than those of a handleAuthenticate of that tab
\* sets the authenticated flag, puts a PRF output into the state or puts a
\* decrypted message into it.
C39_NothingReappears ==
    [][\A t \in Sessions :
          (/\ ~tabs[t].isAuthenticated
           /\ \A h \in AuthenticateSteps : ~Acted(t, h))
              => /\ ~tabs'[t].isAuthenticated
                 /\ tabs[t].prfOutput = NoBytes
                       => tabs'[t].prfOutput = NoBytes
                 /\ tabs[t].decryptedBlob = NoBytes
                       => tabs'[t].decryptedBlob = NoBytes
                 /\ tabs[t].decryptedMessage = ""
                       => tabs'[t].decryptedMessage = ""]_vars

====
